---- MODULE Spec2Model ----
(***************************************************************************)
(* A model of the MQTT v3.1.1 client codec of sake (src/src/mqtt): the     *)
(* remaining-length integer codec, the primitive field codec, the fixed    *)
(* header, the per-packet codecs and the Request / Response envelopes.     *)
(*                                                                         *)
(* A byte is a number in 0..255, a string is the sequence of its UTF-8     *)
(* bytes.  A byte source is a sequence `src` together with the number      *)
(* `pos` of bytes already consumed from it; a byte sink is a record        *)
(* holding the bytes written so far, the room left in it and the error     *)
(* status of the writes made through it.                                   *)
(***************************************************************************)
EXTENDS Integers, Sequences, FiniteSets, TLC

VARIABLES
    wire,   \* the bytes written to the buffer / channel so far
    room,   \* room left in the sink; negative for a growable Vec<u8>
    rpos,   \* number of bytes the reader has consumed from wire
    op,     \* the last operation performed
    len,    \* the argument of the last write_remaining_length
    req,    \* the last Request serialized (or the raw packet the peer sent)
    start,  \* position in wire at which the last operation started
    ret,    \* what the last operation returned
    pkts,   \* history: the end offset in wire of every packet put on it
    flushed \* number of bytes of wire the last flush of the channel covered

vars == <<wire, room, rpos, op, len, req, start, ret, pkts, flushed>>

----------------------------------------------------------------------------
(* Bounds of the model.                                                    *)

\* write_remaining_length is applied to every length in 0..MaxLen and to
\* the boundary lengths of each encoding width.
MaxLen == 300

\* A payload long enough for a remaining length of two bytes.
LongPayload == 130

\* A Subscribe request carries at most MaxSubs subscriptions.
MaxSubs == 2

\* PublishPacket::from_bytes is given every remaining length in
\* 0..MaxRemaining.
MaxRemaining == 24

\* A stream holds at most MaxPackets packets.
MaxPackets == 3

\* A bounded sink (a `&mut [u8]`) has room for at most MaxRoom bytes.
MaxRoom == 8

\* A session sends at most MaxSends messages.
MaxSends == 2

\* The length of the long string: the first that does not fit 16 bits.
LongString == 65536

----------------------------------------------------------------------------
(* Bits and bytes.                                                         *)

Byte == 0..255

RECURSIVE Pow(_, _)
Pow(b, e) == IF e = 0 THEN 1 ELSE b * Pow(b, e - 1)

\* bit i of b: `b & (1 << i) != 0`
Bit(b, i) == (b \div Pow(2, i)) % 2

\* `b & !(1 << i)` and `b | (1 << i)`
ClearBit(b, i) == b - Bit(b, i) * Pow(2, i)
SetBit(b, i) == b + (1 - Bit(b, i)) * Pow(2, i)

\* `a & b` and `a | b` on bytes
BitAnd(a, b) ==
    LET D(i) == Bit(a, i) * Bit(b, i) * Pow(2, i)
    IN  D(0) + D(1) + D(2) + D(3) + D(4) + D(5) + D(6) + D(7)

BitOr(a, b) == a + b - BitAnd(a, b)

\* `b << n` on a u8: the bits shifted out are lost
Shl8(b, n) == (b * Pow(2, n)) % 256

\* `x as u8`, `x as u16`: the truncating casts
AsU8(x) == x % 256
AsU16(x) == x % 65536

\* big-endian (NetworkEndian) 16-bit values
U16Bytes(v) == <<(v \div 256) % 256, v % 256>>
U16Value(bs) == bs[1] * 256 + bs[2]

----------------------------------------------------------------------------
(* Results.  Every read and every write returns a record with a status     *)
(* field st, "ok" or the error, so that `?` is one operator for both.      *)

\* F applied to the value of v, which is computed once
Bind(v, F(_)) == CHOOSE r \in {F(x) : x \in {v}} : TRUE

\* `let x = r?; F(x)`: go on with F only when r is Ok
Try(r, F(_)) == Bind(r, LAMBDA x : IF x.st = "ok" THEN F(x) ELSE x)

----------------------------------------------------------------------------
(* Byte sources: std::io::Read over a buffer, and byteorder's readers.     *)
(* A read returns [st, val, pos]: the status, the value read and the       *)
(* position after the read.                                                *)

ReadOk(val, pos) == [st |-> "ok", val |-> val, pos |-> pos]
ReadErr(st, pos) == [st |-> st, val |-> 0, pos |-> pos]

\* read_exact: the bytes or UnexpectedEof; a short source is drained.
read_exact(src, pos, n) ==
    IF pos + n <= Len(src)
    THEN ReadOk(SubSeq(src, pos + 1, pos + n), pos + n)
    ELSE ReadErr("UnexpectedEof", Len(src))

read_u8(src, pos) ==
    Try(read_exact(src, pos, 1), LAMBDA r : ReadOk(r.val[1], r.pos))

read_u16(src, pos) ==
    Try(read_exact(src, pos, 2), LAMBDA r : ReadOk(U16Value(r.val), r.pos))

----------------------------------------------------------------------------
(* Byte sinks: std::io::Write, and byteorder's writers.  A sink is         *)
(* [bytes, room, st, ret]: st is "ok" until a write through it fails, ret  *)
(* is the value the last writer returned inside its Ok.                    *)

Sink(bytes, r) == [bytes |-> bytes, room |-> r, st |-> "ok", ret |-> 0]

\* a Result that is dropped: the error is lost, the sink stays as it is
Dropped(s) == [s EXCEPT !.st = "ok"]

\* Ok(v)
Returning(s, v) == Try(s, LAMBDA x : [x EXCEPT !.ret = v])

\* Err(e)
Failing(s, e) == [s EXCEPT !.st = e]

\* write_all: a Vec<u8> (room < 0) takes everything; a bounded sink takes
\* what fits and fails with WriteZero on the rest.
write_all(s, bs) ==
    Bind(s, LAMBDA x :
        IF x.room < 0
        THEN [x EXCEPT !.bytes = @ \o bs]
        ELSE IF Len(bs) <= x.room
             THEN [x EXCEPT !.bytes = @ \o bs, !.room = @ - Len(bs)]
             ELSE [x EXCEPT !.bytes = @ \o SubSeq(bs, 1, x.room),
                            !.room = 0, !.st = "WriteZero"])

write_u8(s, b) == write_all(s, <<b>>)

write_u16(s, v) == write_all(s, U16Bytes(v))

----------------------------------------------------------------------------
(* protocol: the remaining-length codec.                                   *)

MAX_PAYLOAD_SIZE == 268435455

\* ((c & 127) as u64 * mul) as u32, with mul = 128^k (k <= 9) or mul = 0
\* (k = 10, after the u64 product wrapped): the product modulo 2^32.
MulAsU32(d, k) ==
    IF k <= 3 THEN d * Pow(128, k)
    ELSE IF k = 4 THEN (d % 16) * Pow(2, 28)
    ELSE 0

\* The loop of read_remaining_length.  c is the byte read last, k the
\* number of `mul *= 128` done.  `mul *= 128` overflows u64 when mul = 2^63
\* (k = 9): the build with overflow checks (oc) panics there, the build
\* without them wraps mul to 0.
RECURSIVE rrl_loop(_, _, _, _, _, _)
rrl_loop(src, pos, c, k, val, oc) ==
    IF Bit(c, 7) = 0 THEN ReadOk(val, pos)
    ELSE IF k = 9 /\ oc THEN ReadErr("panic", pos)
    ELSE Try(read_u8(src, pos), LAMBDA r :
             Bind(<<val + MulAsU32(c % 128, k), IF k >= 9 THEN 10 ELSE k + 1>>,
                  LAMBDA n : rrl_loop(src, r.pos, r.val, n[2], n[1], oc)))

\* read_remaining_length taking the end of the source for the end of the
\* integer.
RECURSIVE rrl_loop_eof_ends(_, _, _, _, _, _)
rrl_loop_eof_ends(src, pos, c, k, val, oc) ==
    IF Bit(c, 7) = 0 THEN ReadOk(val, pos)
    ELSE IF k = 9 /\ oc THEN ReadErr("panic", pos)
    ELSE Bind(read_u8(src, pos), LAMBDA r :
             IF r.st # "ok" THEN ReadOk(val + MulAsU32(c % 128, k), r.pos)
             ELSE rrl_loop_eof_ends(src, r.pos, r.val,
                                    IF k >= 9 THEN 10 ELSE k + 1,
                                    val + MulAsU32(c % 128, k), oc))

read_remaining_length_eof_ends(src, pos, oc) ==
    Try(read_u8(src, pos), LAMBDA r :
        rrl_loop_eof_ends(src, r.pos, r.val, 0,
                          IF Bit(r.val, 7) = 0 THEN r.val % 128 ELSE 0, oc))

read_remaining_length(src, pos, oc) ==
    Try(read_u8(src, pos), LAMBDA r :
        rrl_loop(src, r.pos, r.val, 0,
                 IF Bit(r.val, 7) = 0 THEN r.val % 128 ELSE 0, oc))

\* write_remaining_length with the continuation bit decided before the
\* division instead of after it.
RECURSIVE wrl_loop_flag_first(_, _, _)
wrl_loop_flag_first(s, x, count) ==
    Bind(<<AsU8(x % 128), x \div 128>>, LAMBDA n :
        Try(write_u8(s, IF x > 0 THEN SetBit(n[1], 7) ELSE n[1]),
            LAMBDA w : IF n[2] = 0 THEN Returning(w, count + 1)
                       ELSE wrl_loop_flag_first(w, n[2], count + 1)))

write_remaining_length_flag_first(s, n) ==
    IF n > 268435455
    THEN Failing(s, "PayloadTooLong")
    ELSE wrl_loop_flag_first(s, n, 0)

\* The loop of write_remaining_length: one byte per iteration.
RECURSIVE wrl_loop(_, _, _)
wrl_loop(s, x, count) ==
    Bind(<<AsU8(x % 128), x \div 128>>, LAMBDA n :
        Try(write_u8(s, IF n[2] > 0 THEN SetBit(n[1], 7) ELSE n[1]),
            LAMBDA w : IF n[2] = 0 THEN Returning(w, count + 1)
                       ELSE wrl_loop(w, n[2], count + 1)))

write_remaining_length(s, n) ==
    IF n > MAX_PAYLOAD_SIZE
    THEN Failing(s, "PayloadTooLong")
    ELSE wrl_loop(s, n, 0)

----------------------------------------------------------------------------
(* protocol: the primitive field codec.                                    *)

\* String::from_utf8 accepts exactly the well-formed UTF-8 byte sequences.
RECURSIVE IsUtf8(_)
IsUtf8(bs) ==
    IF \A i \in 1..Len(bs) : bs[i] < 128 THEN TRUE  \* ASCII only
    ELSE LET n == Len(bs)
             b == bs[1]
             In(i, lo, hi) == i <= n /\ bs[i] >= lo /\ bs[i] <= hi
             Cont(i) == In(i, 128, 191)
             Rest(k) == Bind(SubSeq(bs, k + 1, n), LAMBDA t : IsUtf8(t))
         IN  IF b < 128 THEN Rest(1)
             ELSE IF b >= 194 /\ b <= 223 THEN Cont(2) /\ Rest(2)
             ELSE IF b = 224 THEN In(2, 160, 191) /\ Cont(3) /\ Rest(3)
             ELSE IF b = 237 THEN In(2, 128, 159) /\ Cont(3) /\ Rest(3)
             ELSE IF b >= 225 /\ b <= 239 THEN Cont(2) /\ Cont(3) /\ Rest(3)
             ELSE IF b = 240
                  THEN In(2, 144, 191) /\ Cont(3) /\ Cont(4) /\ Rest(4)
             ELSE IF b >= 241 /\ b <= 243
                  THEN Cont(2) /\ Cont(3) /\ Cont(4) /\ Rest(4)
             ELSE IF b = 244
                  THEN In(2, 128, 143) /\ Cont(3) /\ Cont(4) /\ Rest(4)
             ELSE FALSE

read_string(src, pos) ==
    Try(read_u16(src, pos), LAMBDA l :
        Try(read_exact(src, l.pos, l.val), LAMBDA b :
            IF IsUtf8(b.val) THEN b ELSE ReadErr("InvalidData", b.pos)))

write_bytes(s, bytes) == write_all(s, bytes)

write_string(s, string) ==
    Try(write_u16(s, AsU16(Len(string))), LAMBDA w : write_all(w, string))

----------------------------------------------------------------------------
(* PacketType, Qos and the fixed header.                                   *)

\* `packet_type as u8`: the discriminant of the enum
PacketType_as_u8(t) ==
    CASE t = "Connect" -> 1
      [] t = "Connack" -> 2
      [] t = "Publish" -> 3
      [] t = "Puback" -> 4
      [] t = "Pubrec" -> 5
      [] t = "Pubrel" -> 6
      [] t = "Pubcomp" -> 7
      [] t = "Subscribe" -> 8
      [] t = "Disconnect" -> 9
      [] t = "Unknown" -> 10

\* From<u8> for PacketType with Disconnect at its enum discriminant.
PacketType_from_u8_discriminant(orig) ==
    CASE orig = 1 -> "Connect"
      [] orig = 2 -> "Connack"
      [] orig = 3 -> "Publish"
      [] orig = 4 -> "Puback"
      [] orig = 5 -> "Pubrec"
      [] orig = 6 -> "Pubrel"
      [] orig = 7 -> "Pubcomp"
      [] orig = 8 -> "Subscribe"
      [] orig = 9 -> "Disconnect"
      [] OTHER -> "Unknown"

\* From<u8> for PacketType
PacketType_from_u8(orig) ==
    CASE orig = 1 -> "Connect"
      [] orig = 2 -> "Connack"
      [] orig = 3 -> "Publish"
      [] orig = 4 -> "Puback"
      [] orig = 5 -> "Pubrec"
      [] orig = 6 -> "Pubrel"
      [] orig = 7 -> "Pubcomp"
      [] orig = 8 -> "Subscribe"
      [] orig = 14 -> "Disconnect"
      [] OTHER -> "Unknown"

\* From<u8> for Qos; every other value panics
Qos_from_u8(orig) ==
    CASE orig = 0 -> "AtMostOnce"
      [] orig = 1 -> "AtLeastOnce"
      [] orig = 2 -> "ExactlyOnce"
      [] OTHER -> "panic"

\* `qos as u8` and From<&Qos> for u8
Qos_as_u8(q) ==
    CASE q = "AtMostOnce" -> 0
      [] q = "AtLeastOnce" -> 1
      [] q = "ExactlyOnce" -> 2

\* `b as u8` of a bool
B2U8(b) == IF b THEN 1 ELSE 0

FixedHeaderFlags_new(retain, qos, dup) ==
    [retain |-> retain, qos |-> qos, dup |-> dup]

FixedHeaderFlags_from_byte(byte) ==
    LET flag == [i \in 0..3 |-> Bit(byte, i) = 1]
        qos == AsU8(Pow(2, 0) * B2U8(flag[1]))
               + AsU8(Pow(2, 1) * B2U8(flag[2]))
    IN  FixedHeaderFlags_new(flag[0], qos, flag[3])

FixedHeaderFlags_to_byte(f) ==
    BitOr(BitOr(B2U8(f.retain), Shl8(f.qos, 1)), Shl8(B2U8(f.dup), 3))

FixedHeader_new(byte, remaining_length) ==
    [packet_type |-> PacketType_from_u8(byte \div 16),
     flags |-> FixedHeaderFlags_from_byte(byte),
     remaining_length |-> remaining_length]

\* A fixed header read: [st, val, pos], val the FixedHeader.
FixedHeader_from_bytes(src, pos, oc) ==
    Try(read_u8(src, pos), LAMBDA o :
        Try(read_remaining_length(src, o.pos, oc), LAMBDA l :
            ReadOk(FixedHeader_new(o.val, l.val), l.pos)))

FixedHeader_write(s, fh) ==
    Returning(
        Try(write_u8(s, BitOr(Shl8(PacketType_as_u8(fh.packet_type), 4),
                              BitAnd(FixedHeaderFlags_to_byte(fh.flags), 15))),
            LAMBDA w : write_remaining_length(w, fh.remaining_length)),
        0)

----------------------------------------------------------------------------
(* The per-packet codecs.                                                  *)

\* PubackPacket, PubrecPacket, PubrelPacket and PubcompPacket are the same
\* code under four names.
\* the packet id written low byte first
Ack_write_low_first(s, packet_id) ==
    write_all(s, <<packet_id % 256, packet_id \div 256>>)

Ack_write(s, packet_id) == write_u16(s, packet_id)

Ack_from_bytes(src, pos) == read_u16(src, pos)

PublishPacket_new(packet_id, topic, payload, qos) ==
    [packet_id |-> packet_id, qos |-> qos, topic |-> topic,
     payload |-> payload]

PublishPacket_write(s, p) ==
    Try(write_string(s, p.topic), LAMBDA w :
        Try(IF p.qos > 0 THEN write_u16(w, p.packet_id) ELSE w, LAMBDA v :
            write_bytes(v, p.payload)))

\* The payload of a PUBLISH: `remaining_length - bytes_read` bytes, a u32
\* subtraction.  When it would go below zero the build with overflow checks
\* (oc) panics; the build without them wraps to
\* 2^32 - (bytes_read - remaining_length), more bytes than any source of
\* this model holds, so read_exact drains the source and fails.
Publish_payload(src, pos, remaining_length, bytes_read, oc) ==
    IF remaining_length < bytes_read
    THEN IF oc THEN ReadErr("panic", pos)
         ELSE ReadErr("UnexpectedEof", Len(src))
    ELSE read_exact(src, pos, remaining_length - bytes_read)

\* PublishPacket::from_bytes without the packet id counted in bytes_read.
PublishPacket_from_bytes_id_uncounted(src, pos, fh, oc) ==
    Try(read_string(src, pos), LAMBDA t :
        Try(IF fh.flags.qos > 0 THEN read_u16(src, t.pos)
            ELSE ReadOk(0, t.pos), LAMBDA i :
            Try(Publish_payload(src, i.pos, fh.remaining_length,
                    2 + Len(t.val), oc),
                LAMBDA b :
                ReadOk(PublishPacket_new(i.val, t.val, b.val, fh.flags.qos),
                       b.pos))))

PublishPacket_from_bytes(src, pos, fh, oc) ==
    Try(read_string(src, pos), LAMBDA t :
        Try(IF fh.flags.qos > 0 THEN read_u16(src, t.pos)
            ELSE ReadOk(0, t.pos), LAMBDA i :
            Try(Publish_payload(src, i.pos, fh.remaining_length,
                    2 + Len(t.val) + (IF fh.flags.qos > 0 THEN 2 ELSE 0), oc),
                LAMBDA b :
                ReadOk(PublishPacket_new(i.val, t.val, b.val, fh.flags.qos),
                       b.pos))))

\* ConnectReturnCode of a return-code byte, and `return_code as u8`
ConnectReturnCode_of(rc) ==
    CASE rc = 0 -> "Success"
      [] rc = 1 -> "RefusedProtocolVersion"
      [] rc = 2 -> "BadClientId"
      [] rc = 3 -> "ServiceUnavailable"
      [] rc = 4 -> "BadUserNamePassword"
      [] rc = 5 -> "NotAuthorized"
      [] OTHER -> "Unknown"

ConnectReturnCode_as_u8(c) ==
    CASE c = "Success" -> 0
      [] c = "RefusedProtocolVersion" -> 1
      [] c = "BadClientId" -> 2
      [] c = "ServiceUnavailable" -> 3
      [] c = "BadUserNamePassword" -> 4
      [] c = "NotAuthorized" -> 5
      [] c = "Unknown" -> 6

\* The CONNACK body: the session-present byte and the return code.
ConnackPacket_from_bytes(src, pos) ==
    Bind(read_u8(src, pos), LAMBDA s :
        IF s.st # "ok" THEN ReadErr("MalformedPacket", s.pos)
        ELSE Bind(read_u8(src, s.pos), LAMBDA c :
            IF c.st # "ok" THEN ReadErr("MalformedPacket", c.pos)
            ELSE ReadOk([session_present |-> s.val # 0,
                         return_code |-> ConnectReturnCode_of(c.val)],
                        c.pos)))

\* packet::FixedHeader::from_stream: the control byte and the remaining
\* length, at least 2 bytes.
packet_FixedHeader_from_stream(stream, pos) ==
    IF Len(stream) - pos < 2 THEN ReadErr("InsufficientBytes", pos)
    ELSE Try(read_remaining_length(stream, pos + 1, FALSE), LAMBDA l :
             ReadOk(FixedHeader_new(stream[pos + 1], l.val), l.pos))

\* ConnackPacket::from_stream with session_present = (byte == 1).
ConnackPacket_from_stream_only_one(stream, pos) ==
    Try(packet_FixedHeader_from_stream(stream, pos), LAMBDA h :
        IF h.pos >= Len(stream) THEN ReadErr("MalformedPacket", Len(stream))
        ELSE IF h.pos + 1 >= Len(stream)
        THEN ReadErr("MalformedPacket", Len(stream))
        ELSE ReadOk([fixed_header |-> h.val,
                     session_present |-> stream[h.pos + 1] = 1,
                     return_code |-> ConnectReturnCode_of(stream[h.pos + 2])],
                    h.pos + 2))

\* ConnackPacket::from_stream: stream.next() twice after the fixed header.
ConnackPacket_from_stream(stream, pos) ==
    Try(packet_FixedHeader_from_stream(stream, pos), LAMBDA h :
        IF h.pos >= Len(stream) THEN ReadErr("MalformedPacket", Len(stream))
        ELSE IF h.pos + 1 >= Len(stream)
        THEN ReadErr("MalformedPacket", Len(stream))
        ELSE ReadOk([fixed_header |-> h.val,
                     session_present |-> stream[h.pos + 1] # 0,
                     return_code |-> ConnectReturnCode_of(stream[h.pos + 2])],
                    h.pos + 2))

\* One subscription of SubscribePacket::write: both results are dropped.
Subscription_write(s, t) ==
    Dropped(write_u8(Dropped(write_string(s, t.topic)), Qos_as_u8(t.qos)))

\* The for_each of SubscribePacket::write going through the subscriptions
\* from the last to the first.
RECURSIVE Subscriptions_write_reversed(_, _)
Subscriptions_write_reversed(s, ts) ==
    IF ts = <<>> THEN s
    ELSE Bind(Subscriptions_write_reversed(s, Tail(ts)), LAMBDA w :
              Subscription_write(w, Head(ts)))

RECURSIVE Subscriptions_write(_, _)
Subscriptions_write(s, ts) ==
    IF ts = <<>> THEN s
    ELSE Bind(Subscription_write(s, Head(ts)), LAMBDA w :
              Subscriptions_write(w, Tail(ts)))

SubscribePacket_write(s, p) ==
    Try(write_u16(s, p.packet_id), LAMBDA w :
        Returning(Subscriptions_write(w, p.subscription_topics), 0))

----------------------------------------------------------------------------
(* CONNECT.  An Option is a sequence of at most one element.               *)

None == <<>>
Some(x) == <<x>>

\* BufMut::put_u8 / put_u16 return nothing
put_u8(s, b) == Dropped(write_u8(s, b))
put_u16(s, v) == Dropped(write_u16(s, v))

ConnectFlags_new(clean_session) ==
    [clean_session |-> clean_session, will |-> FALSE, will_qos |-> 0,
     will_retain |-> FALSE, password |-> FALSE, username |-> FALSE]

ConnectFlags_write(s, f) ==
    LET c1 == IF f.clean_session THEN BitOr(0, 2) ELSE 0
        c2 == IF f.will THEN BitOr(c1, 4) ELSE c1
        c3 == IF f.username THEN BitOr(c2, 128) ELSE c2
        connect_flags == IF f.password THEN BitOr(c3, 64) ELSE c3
    IN  Returning(put_u8(s, connect_flags), 1)

ConnectVariableHeader_new(clean_session, keepalive) ==
    [flags |-> ConnectFlags_new(clean_session), keepalive |-> keepalive]

ConnectVariableHeader_write(s, vh) ==
    Try(ConnectFlags_write(s, vh.flags), LAMBDA f :
        Returning(put_u16(f, vh.keepalive), f.ret + 2))

ConnectPayload_new(client_id) ==
    [client_id |-> Some(client_id), will_topic |-> None,
     will_message |-> None, username |-> None, password |-> None]

\* `if let Some(x) = field { protocol::write_string(buffer, x); }`
Field_write(s, field) ==
    IF field = None THEN s ELSE Dropped(write_string(s, field[1]))

Field_len(field) == IF field = None THEN 0 ELSE Len(field[1])

\* The username and the password blocks both match on self.will_message.
ConnectPayload_write(s, p) ==
    Returning(
        Field_write(Field_write(Field_write(Field_write(Field_write(s,
            p.client_id), p.will_topic), p.will_message), p.will_message),
            p.will_message),
        Field_len(p.client_id) + Field_len(p.will_topic)
        + 3 * Field_len(p.will_message))

ConnectPacket_new(client_id, clean_session) ==
    [fixed_header |-> FixedHeader_new(16, 10 + 2 + Len(client_id)),
     variable_header |-> ConnectVariableHeader_new(clean_session, 60),
     payload |-> ConnectPayload_new(client_id)]

ConnectPacket_write(s, p) ==
    Try(FixedHeader_write(s, p.fixed_header), LAMBDA h :
        Try(ConnectVariableHeader_write(h, p.variable_header), LAMBDA v :
            Returning(ConnectPayload_write(v, p.payload), 1)))

----------------------------------------------------------------------------
(* Request and Response.                                                   *)

\* encode_qos with the two QoS bits exchanged.
encode_qos_swapped(byte, qos) ==
    CASE qos = "AtMostOnce" -> ClearBit(ClearBit(byte, 1), 2)
      [] qos = "AtLeastOnce" -> SetBit(ClearBit(byte, 1), 2)
      [] qos = "ExactlyOnce" -> SetBit(ClearBit(byte, 2), 1)

encode_qos(byte, qos) ==
    CASE qos = "AtMostOnce" -> ClearBit(ClearBit(byte, 1), 2)
      [] qos = "AtLeastOnce" -> SetBit(ClearBit(byte, 2), 1)
      [] qos = "ExactlyOnce" -> SetBit(ClearBit(byte, 1), 2)

\* From<&Request> for u8: [st, val]; a Publish whose qos is no Qos panics
Request_into_u8(r) ==
    CASE r.kind = "Connect" -> [st |-> "ok", val |-> 16]
      [] r.kind = "Publish" ->
            IF Qos_from_u8(r.qos) = "panic"
            THEN [st |-> "panic", val |-> 0]
            ELSE [st |-> "ok", val |-> encode_qos(48, Qos_from_u8(r.qos))]
      [] r.kind = "Puback" -> [st |-> "ok", val |-> 64]
      [] r.kind = "Pubrec" -> [st |-> "ok", val |-> 80]
      [] r.kind = "Pubrel" -> [st |-> "ok", val |-> 98]
      [] r.kind = "Pubcomp" -> [st |-> "ok", val |-> 112]
      [] r.kind = "Subscribe" -> [st |-> "ok", val |-> 128]
      [] r.kind = "Disconnect" -> [st |-> "ok", val |-> 224]

RECURSIVE SumTopicLens(_)
SumTopicLens(ts) ==
    IF ts = <<>> THEN 0 ELSE 2 + Len(Head(ts).topic) + SumTopicLens(Tail(ts))

\* The remaining length Request::serialize computes for each variant
Request_len(r) ==
    CASE r.kind = "Connect" -> 10 + 2 + Len(r.client_id)
      [] r.kind = "Publish" ->
            2 + Len(r.topic) + Len(r.payload) + (IF r.qos > 0 THEN 2 ELSE 0)
      [] r.kind \in {"Puback", "Pubrec", "Pubrel", "Pubcomp"} -> 2
      [] r.kind = "Subscribe" -> 2 + SumTopicLens(r.subscription_topics)
      [] r.kind = "Disconnect" -> 0

\* The body Request::serialize writes after the remaining length
Request_body(s, r) ==
    CASE r.kind = "Connect" ->
            ConnectPacket_write(s, ConnectPacket_new(r.client_id,
                                                     r.clean_session))
      [] r.kind = "Publish" ->
            PublishPacket_write(s, PublishPacket_new(r.packet_id, r.topic,
                                                     r.payload, r.qos))
      [] r.kind \in {"Puback", "Pubrec", "Pubrel", "Pubcomp"} ->
            Ack_write(s, r.packet_id)
      [] r.kind = "Subscribe" ->
            SubscribePacket_write(s, [packet_id |-> r.packet_id,
                    subscription_topics |-> r.subscription_topics])
      [] r.kind = "Disconnect" -> s

\* Request::serialize, given the `len` its arm computes
Request_serialize_len(s, r, n) ==
    Bind(Request_into_u8(r), LAMBDA o :
        IF o.st = "panic" THEN Failing(s, "panic")
        ELSE Try(write_u8(s, o.val), LAMBDA b :
                 Try(write_remaining_length(b, n), LAMBDA l :
                     Returning(Request_body(l, r), 1))))

Request_serialize(s, r) == Request_serialize_len(s, r, Request_len(r))

\* What Response::deserialize returns: [st, val, pos] as every read, and
\* for the properties the fixed header it decoded (hdr) and the position
\* after that header (hpos).
Response_of(r, v, h) ==
    [st |-> r.st, val |-> v, pos |-> r.pos, hdr |-> h.val, hpos |-> h.pos]

Response_body(src, h, oc) ==
    CASE h.val.packet_type = "Connack" ->
            Try(ConnackPacket_from_bytes(src, h.pos), LAMBDA c :
                ReadOk([kind |-> "Connack",
                        session_present |-> c.val.session_present,
                        return_code |->
                            ConnectReturnCode_as_u8(c.val.return_code)],
                       c.pos))
      [] h.val.packet_type = "Publish" ->
            Try(PublishPacket_from_bytes(src, h.pos, h.val, oc), LAMBDA p :
                ReadOk([kind |-> "Publish", packet_id |-> p.val.packet_id,
                        qos |-> p.val.qos, topic |-> p.val.topic,
                        payload |-> p.val.payload], p.pos))
      [] h.val.packet_type \in {"Puback", "Pubrec", "Pubrel", "Pubcomp"} ->
            Try(Ack_from_bytes(src, h.pos), LAMBDA a :
                ReadOk([kind |-> h.val.packet_type, packet_id |-> a.val],
                       a.pos))
      [] OTHER -> ReadOk([kind |-> "Unknown"], h.pos)

Response_deserialize(src, pos, oc) ==
    Bind(FixedHeader_from_bytes(src, pos, oc), LAMBDA h :
        IF h.st # "ok" THEN Response_of(h, 0, ReadErr(h.st, pos))
        ELSE Bind(Response_body(src, h, oc), LAMBDA r :
                  Response_of(r, r.val, h)))

----------------------------------------------------------------------------
(* The inputs.                                                             *)

TopicA == <<97>>
TestTopic == <<116, 101, 115, 116, 45, 116, 111, 112, 105, 99>>
TestId == <<116, 101, 115, 116, 45, 105, 100>>

Topics == {TopicA, TestTopic}
ClientIds == {<<>>, TopicA, TestId}
PacketIds == {1, 518}
AckIds == PacketIds \cup {0, 65535}
QosValues == 0..3

\* a payload of n bytes, no two neighbours equal, every third one with its
\* top bit set
Payload(n) ==
    [i \in 1..n |-> ((7 * i) % 128) + (IF i % 3 = 0 THEN 128 ELSE 0)]
Payloads == {Payload(n) : n \in {0, 1, 7, LongPayload}}

SeqsUpTo(S, n) == UNION {[1..k -> S] : k \in 0..n}

SubscriptionTopics ==
    [qos : {"AtMostOnce", "AtLeastOnce", "ExactlyOnce"}, topic : Topics]

AckKinds == {"Puback", "Pubrec", "Pubrel", "Pubcomp"}

Requests ==
    [kind : {"Connect"}, client_id : ClientIds, clean_session : BOOLEAN]
    \cup [kind : {"Publish"}, packet_id : PacketIds, qos : QosValues,
          topic : Topics, payload : Payloads]
    \cup [kind : AckKinds, packet_id : AckIds]
    \cup [kind : {"Subscribe"}, packet_id : PacketIds,
          subscription_topics : SeqsUpTo(SubscriptionTopics, MaxSubs)]
    \cup {[kind |-> "Disconnect"]}

\* Packets as the broker puts them on the wire: CONNACKs, packets of types
\* the client does not decode, and PUBLISH packets a Request cannot produce.
PeerPackets ==
    {<<32, 2, s, rc>> : s \in {0, 1, 2}, rc \in {0, 1, 5, 6, 255}}
    \cup {<<144, 3, 0, 1, 0>>, <<208, 0>>, <<176, 2, 0, 1>>, <<0, 1, 9>>,
          <<240, 2, 1, 2>>}
    \cup {<<54, 5, 0, 1, 97, 0, 1>>, <<48, 1, 0, 1, 97>>,
          <<51, 4, 0, 1, 97, 9>>, <<59, 6, 0, 1, 97, 2, 6, 9>>}

\* The inputs of PublishPacket::from_bytes: a control byte and a remaining
\* length for the fixed header, and the bytes of the source, which go on
\* after the packet.
HeaderBytes == {48, 50, 52, 54, 59}
HeaderLens == (0..MaxRemaining) \cup {LongPayload}
Bodies ==
    {U16Bytes(Len(t)) \o t \o Payload(n) : t \in Topics, n \in {12}}
    \cup {U16Bytes(1) \o TopicA \o Payload(LongPayload)}

----------------------------------------------------------------------------
(* The state machine.                                                      *)

NoRequest == [kind |-> "None"]

Vec == 0 - 1

Init ==
    /\ wire = <<>>
    /\ room = Vec
    /\ rpos = 0
    /\ op = "init"
    /\ len = 0
    /\ req = NoRequest
    /\ start = 0
    /\ ret = [st |-> "ok"]
    /\ pkts = <<>>
    /\ flushed = 0

\* the process goes on only after an operation that returned Ok
Alive == ret.st = "ok"

\* The lengths write_remaining_length is applied to.
Lengths ==
    (0..MaxLen) \cup {16383, 16384, 2097151, 2097152,
                      MAX_PAYLOAD_SIZE, MAX_PAYLOAD_SIZE + 1}

\* protocol::write_remaining_length(&mut buf, n) on an empty Vec
WriteRemainingLength(n) ==
    /\ op = "init"
    /\ LET w == write_remaining_length(Sink(wire, room), n)
       IN  /\ wire' = w.bytes
           /\ room' = w.room
           /\ ret' = [st |-> w.st, count |-> w.ret]
    /\ op' = "write_remaining_length"
    /\ len' = n
    /\ start' = Len(wire)
    /\ UNCHANGED <<flushed, rpos, req, pkts>>

\* protocol::read_remaining_length(&mut buf) on the bytes just written
ReadRemainingLength(oc) ==
    /\ op = "write_remaining_length"
    /\ Alive
    /\ LET r == read_remaining_length(wire, rpos, oc)
       IN  /\ rpos' = r.pos
           /\ ret' = r
    /\ op' = "read_remaining_length"
    /\ start' = rpos
    /\ UNCHANGED <<flushed, wire, room, len, req, pkts>>

\* request.serialize(&mut buf): the packet is appended to the buffer
Send(r) ==
    /\ Alive
    /\ LET w == Request_serialize(Sink(wire, room), r)
       IN  /\ wire' = w.bytes
           /\ room' = w.room
           /\ ret' = [st |-> w.st, val |-> w.ret]
           /\ pkts' = IF w.st = "ok"
                      THEN Append(pkts, [kind |-> r.kind,
                                         end |-> Len(w.bytes)])
                      ELSE pkts
    /\ op' = "serialize"
    /\ req' = r
    /\ start' = Len(wire)
    /\ UNCHANGED <<flushed, rpos, len>>

\* the broker's bytes arrive in the buffer
Receive(bs) ==
    /\ Alive
    /\ wire' = wire \o bs
    /\ pkts' = Append(pkts, [kind |-> PacketType_from_u8(bs[1] \div 16),
                             end |-> Len(wire) + Len(bs)])
    /\ op' = "peer"
    /\ req' = [kind |-> "Raw", bytes |-> bs]
    /\ ret' = [st |-> "ok"]
    /\ start' = Len(wire)
    /\ UNCHANGED <<flushed, room, rpos, len>>

\* Response::deserialize(&mut reader) on the unread bytes of the buffer
Deserialize(oc) ==
    /\ op \in {"serialize", "peer", "deserialize"}
    /\ Alive
    /\ rpos < Len(wire)
    /\ LET r == Response_deserialize(wire, rpos, oc)
       IN  /\ rpos' = r.pos
           /\ ret' = r
    /\ op' = "deserialize"
    /\ start' = rpos
    /\ UNCHANGED <<flushed, wire, room, len, req, pkts>>

\* One request serialized into an empty Vec
Serialize(r) == op = "init" /\ Send(r)

\* One packet of the broker in an empty buffer
PeerSend(bs) == op = "init" /\ Receive(bs)

\* PublishPacket::from_bytes(&mut body, &FixedHeader::new(byte, n))
PublishFromBytes(byte, n, body, oc) ==
    /\ op = "init"
    /\ LET fh == FixedHeader_new(byte, n)
           r == PublishPacket_from_bytes(body, 0, fh, oc)
       IN  /\ rpos' = r.pos
           /\ ret' = Response_of(r, r.val, ReadOk(fh, 0))
    /\ wire' = body
    /\ op' = "from_bytes"
    /\ UNCHANGED <<flushed, room, len, req, start, pkts>>

\* ConnectPacket::new(client_id, clean_session).write(&mut buffer)
ConnectWrite(client_id, clean_session) ==
    /\ op = "init"
    /\ LET w == ConnectPacket_write(Sink(wire, room),
                    ConnectPacket_new(client_id, clean_session))
       IN  /\ wire' = w.bytes
           /\ room' = w.room
           /\ ret' = [st |-> w.st, val |-> w.ret]
    /\ op' = "connect_write"
    /\ req' = [kind |-> "Connect", client_id |-> client_id,
               clean_session |-> clean_session]
    /\ UNCHANGED <<flushed, rpos, len, start, pkts>>

Next ==
    \/ \E r \in Requests : Serialize(r)
    \/ \E bs \in PeerPackets : PeerSend(bs)
    \/ \E oc \in BOOLEAN : Deserialize(oc)
    \/ \E byte \in HeaderBytes, n \in HeaderLens, body \in Bodies,
          oc \in BOOLEAN : PublishFromBytes(byte, n, body, oc)
    \/ \E c \in ClientIds, cs \in BOOLEAN : ConnectWrite(c, cs)

Spec == Init /\ [][Next]_vars

NextLen ==
    \/ \E n \in Lengths : WriteRemainingLength(n)
    \/ \E oc \in BOOLEAN : ReadRemainingLength(oc)

SpecLen == Init /\ [][NextLen]_vars

----------------------------------------------------------------------------
(* A stream: several packets one after the other in the buffer, decoded    *)
(* by successive Response::deserialize calls.                              *)

StreamRequests ==
    {[kind |-> "Puback", packet_id |-> 1],
     [kind |-> "Pubrel", packet_id |-> 518],
     [kind |-> "Publish", packet_id |-> 1, qos |-> 1, topic |-> TopicA,
      payload |-> Payload(1)],
     [kind |-> "Publish", packet_id |-> 0, qos |-> 0, topic |-> TestTopic,
      payload |-> Payload(7)],
     [kind |-> "Publish", packet_id |-> 518, qos |-> 2, topic |-> TopicA,
      payload |-> Payload(LongPayload)],
     [kind |-> "Connect", client_id |-> TestId, clean_session |-> TRUE],
     [kind |-> "Disconnect"]}

StreamPeerPackets == {<<32, 2, 1, 0>>, <<144, 3, 0, 1, 0>>}

StreamSend(r) == Len(pkts) < MaxPackets /\ Send(r)

StreamReceive(bs) == Len(pkts) < MaxPackets /\ Receive(bs)

NextStream ==
    \/ \E bs \in StreamPeerPackets : StreamReceive(bs)
    \/ \E r \in StreamRequests : StreamSend(r)
    \/ \E oc \in BOOLEAN : Deserialize(oc)

SpecStream == Init /\ [][NextStream]_vars

----------------------------------------------------------------------------
(* The operations one at a time, on inputs no Request produces: lengths    *)
(* beyond the maximum, sources that are short or malformed.                *)

\* The remaining lengths of requests too long to send
LongLengths == {MAX_PAYLOAD_SIZE + 1, MAX_PAYLOAD_SIZE + 2}

\* request.serialize(&mut buf) for a Publish like r whose payload is so long
\* that the `len` of its arm is n.  The payload is not enumerated: with
\* n > MAX_PAYLOAD_SIZE serialize returns before it writes the body.
SerializeLong(r, n) ==
    /\ op = "init"
    /\ r.kind = "Publish"
    /\ n > MAX_PAYLOAD_SIZE
    /\ LET w == Request_serialize_len(Sink(wire, room), r, n)
       IN  /\ wire' = w.bytes
           /\ room' = w.room
           /\ ret' = [st |-> w.st, val |-> w.ret]
    /\ op' = "serialize"
    /\ req' = [r EXCEPT !.payload = <<>>]
    /\ len' = n
    /\ start' = Len(wire)
    /\ UNCHANGED <<flushed, rpos, pkts>>

\* The sources read_remaining_length is applied to: every sequence of up
\* to four bytes of LengthBytes, and longer runs of continuation bytes.
LengthBytes == {1, 127, 128, 255}

Run(n, b) == [i \in 1..n |-> b]

LengthSources ==
    SeqsUpTo(LengthBytes, 4)
    \cup {Run(4, 128) \o <<1>>, Run(4, 255) \o <<127>>, Run(4, 255) \o <<1, 2>>,
          Run(5, 128) \o <<1>>, Run(4, 255) \o <<135, 3>>, Run(5, 129),
          Run(9, 128) \o <<1>>, Run(10, 128), Run(10, 128) \o <<1>>,
          Run(11, 128) \o <<1, 2>>}

\* protocol::read_remaining_length(&mut bs)
ReadLength(bs, oc) ==
    /\ op = "init"
    /\ LET r == read_remaining_length(bs, 0, oc)
       IN  /\ rpos' = r.pos
           /\ ret' = r
    /\ wire' = bs
    /\ op' = "read_length"
    /\ UNCHANGED <<flushed, room, len, req, start, pkts>>

\* The sources FixedHeader::from_bytes is applied to
ControlBytes == {16, 50, 59, 224}

HeaderSources ==
    {<<>>}
    \cup {<<c>> \o l : c \in ControlBytes,
                       l \in SeqsUpTo(LengthBytes, 2)
                             \cup {Run(3, 128), Run(4, 128) \o <<1>>}}

\* FixedHeader::from_bytes(&mut bs)
HeaderFromBytes(bs, oc) ==
    /\ op = "init"
    /\ LET r == FixedHeader_from_bytes(bs, 0, oc)
       IN  /\ rpos' = r.pos
           /\ ret' = r
    /\ wire' = bs
    /\ op' = "header_from_bytes"
    /\ UNCHANGED <<flushed, room, len, req, start, pkts>>

\* The control bytes of the recognized packet types, with every
\* combination of flags whose qos is 0, 1 or 2
RecognizedBytes ==
    {16 * t + f : t \in (1..8) \cup {14}, f \in {x \in 0..15 : x % 8 < 6}}

HeaderLengths == {0, 18, 127, 128, MaxLen}

\* FixedHeader::new(byte, n)
HeaderNew(byte, n) ==
    /\ op = "init"
    /\ ret' = ReadOk(FixedHeader_new(byte, n), 0)
    /\ op' = "header_new"
    /\ req' = [kind |-> "Header", byte |-> byte]
    /\ len' = n
    /\ UNCHANGED <<flushed, wire, room, rpos, start, pkts>>

\* FixedHeader::new(byte, n).write(&mut buffer) on an empty Vec
HeaderWrite(byte, n) ==
    /\ op = "init"
    /\ LET w == FixedHeader_write(Sink(wire, room), FixedHeader_new(byte, n))
       IN  /\ wire' = w.bytes
           /\ room' = w.room
           /\ ret' = [st |-> w.st, val |-> FixedHeader_new(byte, n)]
    /\ op' = "header_write"
    /\ req' = [kind |-> "Header", byte |-> byte]
    /\ len' = n
    /\ UNCHANGED <<flushed, rpos, start, pkts>>

\* FixedHeader::from_bytes on the bytes FixedHeader::write produced
HeaderRead(oc) ==
    /\ op = "header_write"
    /\ Alive
    /\ LET r == FixedHeader_from_bytes(wire, rpos, oc)
       IN  /\ rpos' = r.pos
           /\ ret' = r
    /\ op' = "header_read"
    /\ UNCHANGED <<flushed, wire, room, len, req, start, pkts>>

\* The streams ConnackPacket::from_stream is applied to: the fixed header
\* 20 02 and up to two body bytes
ConnackBodies == SeqsUpTo({0, 1, 2, 255}, 1) \cup [1..2 -> {0, 1, 2, 3, 4, 5, 6, 255}]

\* ConnackPacket::from_stream(stream.iter())
ConnackFromStream(body) ==
    /\ op = "init"
    /\ LET r == ConnackPacket_from_stream(<<32, 2>> \o body, 0)
       IN  /\ rpos' = r.pos
           /\ ret' = r
    /\ wire' = <<32, 2>> \o body
    /\ op' = "connack_from_stream"
    /\ UNCHANGED <<flushed, room, len, req, start, pkts>>

\* The requests serialized into a bounded sink.  Connect is not among
\* them: ConnectPacket::write takes a BytesMut, which grows as needed.
SinkRequests ==
    {r \in Requests : /\ r.kind # "Connect"
                      /\ r.kind = "Publish" => Len(r.payload) <= 7}

\* request.serialize(&mut buf) with buf a `&mut [u8]` of n bytes, whose
\* write_all fails with WriteZero once it is full
SerializeInto(r, n) ==
    /\ op = "init"
    /\ LET w == Request_serialize(Sink(<<>>, n), r)
       IN  /\ wire' = w.bytes
           /\ room' = w.room
           /\ ret' = [st |-> w.st, val |-> w.ret]
    /\ op' = "serialize_into"
    /\ req' = r
    /\ len' = n
    /\ UNCHANGED <<flushed, rpos, start, pkts>>

\* The payloads ConnectPayload::write is applied to.  The fields are
\* private and ConnectPayload::new sets the client id only: the others are
\* set by a struct literal inside the connect module.
ConnectPayloads ==
    [client_id : {Some(TopicA)},
     will_topic : {None, Some(<<116>>)},
     will_message : {None, Some(<<109, 115, 103>>)},
     username : {None, Some(<<117>>)},
     password : {None, Some(<<112, 119>>)}]

\* payload.write(&mut buffer) on an empty buffer
ConnectPayloadWrite(p) ==
    /\ op = "init"
    /\ LET w == ConnectPayload_write(Sink(wire, room), p)
       IN  /\ wire' = w.bytes
           /\ room' = w.room
           /\ ret' = [st |-> w.st, val |-> w.ret]
    /\ op' = "payload_write"
    /\ req' = [kind |-> "ConnectPayload", payload |-> p]
    /\ UNCHANGED <<flushed, rpos, len, start, pkts>>

\* The strings write_string is applied to (a &str: well-formed UTF-8)
Strings ==
    {<<>>, TopicA, TestTopic, <<195, 169>>, Run(LongString - 1, 97),
     Run(LongString, 97), Run(LongString + 1, 97)}

\* protocol::write_string(&mut buffer, string) on an empty Vec and then
\* protocol::read_string(&mut buffer) on what it wrote.  The state keeps
\* what the caller observes of the two: the result of the write, the value
\* of the two bytes written first, the number of bytes written after them,
\* the result of the read and whether the string read is the one written.
StringRoundTrip(string) ==
    /\ op = "init"
    /\ LET w == write_string(Sink(<<>>, Vec), string)
           r == read_string(w.bytes, 0)
       IN  ret' = [st |-> w.st,
                   prefix |-> U16Value(SubSeq(w.bytes, 1, 2)),
                   follow |-> Len(w.bytes) - 2,
                   back |-> r.st,
                   same |-> (r.st = "ok" /\ r.val = string)]
    /\ op' = "string_round_trip"
    /\ len' = Len(string)
    /\ UNCHANGED <<flushed, wire, room, rpos, req, start, pkts>>

NextParts ==
    \/ \E r \in Requests, n \in LongLengths : SerializeLong(r, n)
    \/ \E n \in {MAX_PAYLOAD_SIZE, MAX_PAYLOAD_SIZE + 1} :
          WriteRemainingLength(n)
    \/ \E bs \in LengthSources, oc \in BOOLEAN : ReadLength(bs, oc)
    \/ \E bs \in HeaderSources, oc \in BOOLEAN : HeaderFromBytes(bs, oc)
    \/ \E byte \in Byte, n \in HeaderLengths : HeaderNew(byte, n)
    \/ \E byte \in RecognizedBytes, n \in HeaderLengths : HeaderWrite(byte, n)
    \/ \E oc \in BOOLEAN : HeaderRead(oc)
    \/ \E body \in ConnackBodies : ConnackFromStream(body)
    \/ \E r \in SinkRequests, n \in 0..MaxRoom : SerializeInto(r, n)
    \/ \E p \in ConnectPayloads : ConnectPayloadWrite(p)
    \/ \E string \in Strings : StringRoundTrip(string)

SpecParts == Init /\ [][NextParts]_vars

----------------------------------------------------------------------------
(* The session: Protocol over a TcpStream.  A Protocol is the stream (a    *)
(* sink) and the number of its bytes covered by the last flush.            *)

\* Protocol::send_message that flushes whatever serialize returned.
Protocol_send_message_always_flush(p, message) ==
    Bind(Request_serialize(p.stream, message), LAMBDA w :
        [stream |-> w, flushed |-> Len(w.bytes)])

\* Protocol::send_message: `message.serialize(&mut self.stream)?` and then
\* `self.stream.flush()`
Protocol_send_message(p, message) ==
    Bind(Request_serialize(p.stream, message), LAMBDA w :
        IF w.st # "ok" THEN [stream |-> w, flushed |-> p.flushed]
        ELSE [stream |-> Returning(w, 0), flushed |-> Len(w.bytes)])

Protocol_disconnect(p) == Protocol_send_message(p, [kind |-> "Disconnect"])

Protocol_publish(p, topic, message) ==
    Protocol_send_message(p, [kind |-> "Publish", packet_id |-> 1, qos |-> 1,
                              topic |-> topic, payload |-> message])

\* ack_type is an AckType: its variant (kind) and the packet id it holds
Protocol_ack(p, ack_type) ==
    Protocol_send_message(p,
        CASE ack_type.kind = "Puback" ->
                [kind |-> "Puback", packet_id |-> ack_type.packet_id]
          [] ack_type.kind = "Pubrec" ->
                [kind |-> "Pubrec", packet_id |-> ack_type.packet_id]
          [] ack_type.kind = "Pubrel" ->
                [kind |-> "Pubrel", packet_id |-> ack_type.packet_id]
          [] ack_type.kind = "Pubcomp" ->
                [kind |-> "Pubcomp", packet_id |-> ack_type.packet_id])

\* Protocol::connect: the stream takes n more bytes before its writes start
\* to fail (the peer closes the connection); a negative n, any number.
SessionConnect(n) ==
    /\ op = "init"
    /\ room' = n
    /\ op' = "connect"
    /\ UNCHANGED <<wire, rpos, len, req, start, ret, pkts, flushed>>

InSession ==
    /\ op \in {"connect", "send_message", "publish", "ack", "disconnect"}
    /\ Alive
    /\ Len(pkts) < MaxSends

\* The state after a call of the session that left the Protocol as p
SessionCall(name, call, p) ==
    /\ wire' = p.stream.bytes
    /\ room' = p.stream.room
    /\ flushed' = p.flushed
    /\ ret' = [st |-> p.stream.st, val |-> 0]
    /\ op' = name
    /\ req' = call
    /\ start' = Len(wire)
    /\ pkts' = Append(pkts, [kind |-> name, end |-> Len(p.stream.bytes)])
    /\ UNCHANGED <<rpos, len>>

ThisProtocol == [stream |-> Sink(wire, room), flushed |-> flushed]

SessionSend(r) ==
    /\ InSession
    /\ SessionCall("send_message", r, Protocol_send_message(ThisProtocol, r))

SessionPublish(topic, message) ==
    /\ InSession
    /\ SessionCall("publish",
                   [kind |-> "Publish", topic |-> topic, payload |-> message],
                   Protocol_publish(ThisProtocol, topic, message))

SessionAck(ack_type) ==
    /\ InSession
    /\ SessionCall("ack", ack_type, Protocol_ack(ThisProtocol, ack_type))

SessionDisconnect ==
    /\ InSession
    /\ SessionCall("disconnect", [kind |-> "Disconnect"],
                   Protocol_disconnect(ThisProtocol))

SessionRequests ==
    StreamRequests
    \cup {[kind |-> "Subscribe", packet_id |-> 1,
           subscription_topics |-> <<[qos |-> "AtLeastOnce",
                                      topic |-> TopicA]>>],
          [kind |-> "Publish", packet_id |-> 1, qos |-> 3, topic |-> TopicA,
           payload |-> <<>>]}

AckTypes == [kind : AckKinds, packet_id : PacketIds]

NextSession ==
    \/ \E n \in Vec..MaxRoom : SessionConnect(n)
    \/ \E r \in SessionRequests : SessionSend(r)
    \/ \E t \in Topics, m \in {Payload(0), Payload(7)} : SessionPublish(t, m)
    \/ \E a \in AckTypes : SessionAck(a)
    \/ SessionDisconnect

SpecSession == Init /\ [][NextSession]_vars

----------------------------------------------------------------------------
(* The wire format the properties are stated against.                      *)

\* The number of base-128 digits of n
RECURSIVE Digits(_)
Digits(n) == IF n < 128 THEN 1 ELSE 1 + Digits(n \div 128)

\* The variable-length encoding of n: its base-128 digits, least
\* significant first, bit 0x80 on every byte but the last
VarInt(n) ==
    [i \in 1..Digits(n) |->
        ((n \div Pow(128, i - 1)) % 128) + (IF i < Digits(n) THEN 128 ELSE 0)]

\* The value of the variable-length integer that starts at byte i of bs,
\* and the index of its last byte
RECURSIVE VarIntAt(_, _)
VarIntAt(bs, i) ==
    IF i > Len(bs) THEN [val |-> 0, end |-> Len(bs)]
    ELSE IF bs[i] < 128 THEN [val |-> bs[i], end |-> i]
    ELSE Bind(VarIntAt(bs, i + 1), LAMBDA r :
              [val |-> (bs[i] % 128) + 128 * r.val, end |-> r.end])

\* A length-prefixed string
Str(t) == U16Bytes(Len(t)) \o t

\* The bytes of wire after position i
From(i) == SubSeq(wire, i + 1, Len(wire))

\* The packet the last serialize wrote: its declared remaining length and
\* the bytes after its fixed header
Declared == VarIntAt(wire, start + 2)
Body == From(Declared.end)

Serialized(kind) == op = "serialize" /\ ret.st = "ok" /\ req.kind = kind

----------------------------------------------------------------------------
(* The properties.                                                         *)

\* C1: read_remaining_length applied to exactly the bytes emitted by
\* write_remaining_length(n) returns n and consumes all of those bytes and
\* no others, for every n up to 268435455.
C1_RemainingLengthRoundTrip ==
    op = "read_remaining_length" =>
        ret.st = "ok" /\ ret.val = len /\ rpos = Len(wire)

\* C2: for every len up to 268435455 write_remaining_length emits the
\* base-128 digits of len least significant first, bit 0x80 set on every
\* byte but the last, in 1 to 4 bytes, and returns the number of bytes it
\* emitted; 0, 127, 128, 16383, 16384 and 268435455 encode as listed.
C2_RemainingLengthEncoding ==
    (op = "write_remaining_length" /\ len <= 268435455) =>
        /\ ret.st = "ok"
        /\ wire = VarInt(len)
        /\ Len(wire) \in 1..4
        /\ ret.count = Len(wire)
        /\ \A i \in 1..Len(wire) : (wire[i] >= 128) <=> (i < Len(wire))
        /\ len = 0 => wire = <<0>>
        /\ len = 127 => wire = <<127>>
        /\ len = 128 => wire = <<128, 1>>
        /\ len = 16383 => wire = <<255, 127>>
        /\ len = 16384 => wire = <<128, 128, 1>>
        /\ len = 268435455 => wire = <<255, 255, 255, 127>>

C2_Witness ==
    /\ op = "write_remaining_length"
    /\ len = 16384
    /\ wire = <<128, 128, 1>>
    /\ ret.count = 3

\* C3: when Response::deserialize returns Response::Unknown for a fixed
\* header of remaining length R it returns without error and has consumed
\* the R body bytes, so that the next call starts at the following packet.
C3_UnknownConsumesBody ==
    (op = "deserialize" /\ ret.hpos > start
        /\ ret.hdr.packet_type \notin {"Connack", "Publish", "Puback",
                                       "Pubrec", "Pubrel", "Pubcomp"}) =>
        /\ ret.st = "ok"
        /\ ret.val.kind = "Unknown"
        /\ rpos = ret.hpos + ret.hdr.remaining_length

\* C4: in a stream of packets of the recognized response types every
\* successful Response::deserialize consumes exactly the fixed header plus
\* the bytes its remaining length declares, so that successive calls
\* return the packets in order, each starting at a packet boundary.
Recognized == {"Connack", "Publish", "Puback", "Pubrec", "Pubrel", "Pubcomp"}

PacketStart(i) == IF i = 1 THEN 0 ELSE pkts[i - 1].end

C4_StreamFraming ==
    (op = "deserialize" /\ ret.st = "ok"
        /\ \A i \in DOMAIN pkts : pkts[i].kind \in Recognized) =>
        /\ rpos = ret.hpos + ret.hdr.remaining_length
        /\ \E i \in DOMAIN pkts :
              /\ PacketStart(i) = start
              /\ pkts[i].end = rpos
              /\ pkts[i].kind = ret.val.kind

\* C5: for every Request::Subscribe the remaining length written in the
\* fixed header equals the number of body bytes written after it: 2 for
\* the packet id plus 2 + topic length + 1 for each subscription.
RECURSIVE SubscriptionBytes(_)
SubscriptionBytes(ts) ==
    IF ts = <<>> THEN 0
    ELSE 2 + Len(Head(ts).topic) + 1 + SubscriptionBytes(Tail(ts))

C5_SubscribeRemainingLength ==
    Serialized("Subscribe") =>
        /\ Len(Body) = 2 + SubscriptionBytes(req.subscription_topics)
        /\ Declared.val = Len(Body)

\* C6: Request::Connect serializes as the fixed header, once (0x10 and the
\* remaining length), then the body: protocol name, level, connect flags,
\* keepalive, length-prefixed client id; the remaining length is the
\* number of bytes after the header.
ConnectBody(r) ==
    Str(<<77, 81, 84, 84>>) \o <<4, IF r.clean_session THEN 2 ELSE 0>>
    \o U16Bytes(60) \o Str(r.client_id)

C6_ConnectHeaderOnce ==
    Serialized("Connect") =>
        /\ wire[start + 1] = 16
        /\ Declared.val = Len(Body)
        /\ Body = ConnectBody(req)

\* C7: ConnectPacket::new(client_id, clean_session).write emits 0x10, the
\* remaining length 12 + len(client_id), 00 04 'M' 'Q' 'T' 'T', level 4,
\* the connect flags, keepalive 00 3C and the length-prefixed client id;
\* ("test-id", false) gives 10 13 00 04 4D 51 54 54 04 00 00 3C 00 07
\* 74 65 73 74 2D 69 64.
C7_ConnectPacketBytes ==
    op = "connect_write" =>
        /\ ret.st = "ok"
        /\ wire = <<16>> \o VarInt(12 + Len(req.client_id)) \o ConnectBody(req)
        /\ (req.client_id = TestId /\ ~req.clean_session) =>
              wire = <<16, 19, 0, 4, 77, 81, 84, 84, 4, 0, 0, 60, 0, 7,
                       116, 101, 115, 116, 45, 105, 100>>

\* C8: the first byte Request::serialize writes is the opcode of the
\* variant: Connect 0x10, Publish 0x30 | (qos << 1) for qos in 0..=2,
\* Puback 0x40, Pubrec 0x50, Pubrel 0x62, Pubcomp 0x70, Subscribe 0x80,
\* Disconnect 0xE0; Disconnect serializes to [0xE0, 0x00].
Opcode(r) ==
    CASE r.kind = "Connect" -> 16
      [] r.kind = "Publish" -> 48 + 2 * r.qos
      [] r.kind = "Puback" -> 64
      [] r.kind = "Pubrec" -> 80
      [] r.kind = "Pubrel" -> 98
      [] r.kind = "Pubcomp" -> 112
      [] r.kind = "Subscribe" -> 128
      [] r.kind = "Disconnect" -> 224

C8_FirstByteIsOpcode ==
    (op = "serialize" /\ (req.kind = "Publish" => req.qos \in 0..2)) =>
        /\ ret.st = "ok"
        /\ wire[start + 1] = Opcode(req)
        /\ req.kind = "Disconnect" => From(start) = <<224, 0>>

C8_Witness ==
    /\ Serialized("Publish")
    /\ req.qos = 1
    /\ wire[1] = 50

\* C9: Response::deserialize of the bytes Request::serialize produced for
\* a Request::Publish with qos in 0..=2 returns Response::Publish with the
\* same packet_id, qos, topic and payload, also when the remaining length
\* is 128 or more.
C9_PublishRoundTrip ==
    (op = "deserialize" /\ start = 0 /\ req.kind = "Publish") =>
        /\ ret.st = "ok"
        /\ ret.val = [kind |-> "Publish", packet_id |-> req.packet_id,
                      qos |-> req.qos, topic |-> req.topic,
                      payload |-> req.payload]

\* C10: the 16-bit packet id is written and read after the topic iff
\* qos > 0, and the decoder, given a fixed header of remaining length R and
\* a topic of t bytes, reads exactly R - (2 + t + (2 if qos > 0 else 0))
\* payload bytes; R = 19, topic "test-topic", qos 0 gives 7 payload bytes.
PublishDecoded ==
    /\ op \in {"from_bytes", "deserialize"}
    /\ ret.st = "ok"
    /\ ret.hdr.packet_type = "Publish"

C10_PublishLayout ==
    /\ Serialized("Publish") =>
          Body = Str(req.topic)
                 \o (IF req.qos > 0 THEN U16Bytes(req.packet_id) ELSE <<>>)
                 \o req.payload
    /\ PublishDecoded =>
          LET t == Len(ret.val.topic)
              id == IF ret.hdr.flags.qos > 0 THEN 2 ELSE 0
              n == ret.hdr.remaining_length - (2 + t + id)
              at == ret.hpos + 2 + t
          IN  /\ Len(ret.val.payload) = n
              /\ rpos = ret.hpos + ret.hdr.remaining_length
              /\ ret.val.topic = SubSeq(wire, ret.hpos + 3, at)
              /\ ret.val.packet_id =
                    IF id = 2 THEN U16Value(SubSeq(wire, at + 1, at + 2))
                    ELSE 0
              /\ ret.val.payload = SubSeq(wire, at + id + 1, at + id + n)
    /\ (op = "from_bytes" /\ ret.hdr.remaining_length = 19
           /\ ret.hdr.flags.qos = 0 /\ SubSeq(wire, 1, 12) = Str(TestTopic)) =>
          ret.st = "ok" /\ Len(ret.val.payload) = 7 /\ rpos = 19

C10_Witness ==
    /\ op = "from_bytes"
    /\ ret.st = "ok"
    /\ ret.hdr.remaining_length = 19
    /\ ret.hdr.flags.qos = 0
    /\ ret.val.topic = TestTopic
    /\ Len(ret.val.payload) = 7
    /\ rpos = 19
    /\ Len(wire) > 19

\* C11: for each kind K of Puback, Pubrec, Pubrel, Pubcomp and every packet
\* id p, Request::K{p} serializes to [opcode(K), 2, p >> 8, p & 0xFF] and
\* Response::deserialize of those bytes returns Response::K{p}, so that
\* requests of different kinds never decode to the same variant.
C11_AckRoundTrip ==
    /\ (op = "serialize" /\ req.kind \in AckKinds) =>
          /\ ret.st = "ok"
          /\ From(start) = <<Opcode(req), 2, req.packet_id \div 256,
                             req.packet_id % 256>>
    /\ (op = "deserialize" /\ start = 0 /\ req.kind \in AckKinds) =>
          /\ ret.st = "ok"
          /\ ret.val = [kind |-> req.kind, packet_id |-> req.packet_id]
          /\ rpos = Len(wire)

C11_Witness ==
    /\ op = "deserialize"
    /\ req = [kind |-> "Pubrel", packet_id |-> 518]
    /\ wire = <<98, 2, 2, 6>>
    /\ ret.val = [kind |-> "Pubrel", packet_id |-> 518]

\* C12: an encode whose remaining length exceeds 268435455 fails with
\* PayloadTooLong before any byte is emitted: when Request::serialize or
\* write_remaining_length returns this error the sink holds exactly the
\* bytes it held before the call, no control byte included.
C12_TooLongWritesNothing ==
    (op \in {"serialize", "write_remaining_length"} /\ len > 268435455
        /\ (op = "serialize" => req.qos \in 0..2)) =>
        /\ ret.st = "PayloadTooLong"
        /\ Len(wire) = start

\* C13: read_remaining_length rejects over-long encodings: when the first
\* four bytes read all have the continuation bit set it fails with
\* MalformedRemainingLength instead of reading on or returning a value.
FourContinuationBytes ==
    /\ op = "read_length"
    /\ Len(wire) >= 4
    /\ \A i \in 1..4 : wire[i] >= 128

C13_OverLongRejected ==
    FourContinuationBytes =>
        /\ ret.st = "MalformedRemainingLength"
        /\ rpos <= 5

\* C14: short input is reported as a condition of its own: on a source of
\* fewer than 2 bytes FixedHeader::from_bytes, and on a source exhausted
\* before a byte with a clear continuation bit read_remaining_length, fail
\* with the insufficient-bytes error (io::ErrorKind::UnexpectedEof), which
\* these functions return in no other case.
Exhausted(from) ==
    /\ Len(wire) - from <= 3
    /\ \A i \in (from + 1)..Len(wire) : wire[i] >= 128

ShortInput ==
    \/ op = "read_length" /\ Exhausted(0)
    \/ op = "header_from_bytes" /\ (Len(wire) < 2 \/ Exhausted(1))

C14_ShortInput ==
    /\ ShortInput => ret.st = "UnexpectedEof" /\ rpos = Len(wire)
    /\ (op \in {"read_length", "header_from_bytes"}
           /\ ret.st = "UnexpectedEof") =>
          /\ rpos = Len(wire)
          /\ \A i \in (IF op = "read_length" THEN 1 ELSE 2)..Len(wire) :
                wire[i] >= 128

C14_Witness ==
    /\ op = "header_from_bytes"
    /\ wire = <<50>>
    /\ ret.st = "UnexpectedEof"

\* C15: packet-type decoding is total: for every control byte b
\* FixedHeader::new(b, len) succeeds, the type chosen by b >> 4: 1..8 and
\* 0xE are Connect, Connack, Publish, Puback, Pubrec, Pubrel, Pubcomp,
\* Subscribe, Disconnect; 0, 9..13 and 15 are PacketType::Unknown.
TypeOfNibble(n) ==
    IF n \in 1..8
    THEN <<"Connect", "Connack", "Publish", "Puback", "Pubrec", "Pubrel",
           "Pubcomp", "Subscribe">>[n]
    ELSE IF n = 14 THEN "Disconnect" ELSE "Unknown"

C15_PacketTypeTotal ==
    op = "header_new" =>
        /\ ret.st = "ok"
        /\ ret.val.packet_type = TypeOfNibble(req.byte \div 16)
        /\ ret.val.remaining_length = len

C15_Witness ==
    /\ op = "header_new"
    /\ req.byte = 144
    /\ ret.st = "ok"
    /\ ret.val.packet_type = "Unknown"

\* C16: CONNACK decoding: for body bytes (s, rc) session_present is true
\* iff s != 0 and rc maps 0..5 to Success, RefusedProtocolVersion,
\* BadClientId, ServiceUnavailable, BadUserNamePassword, NotAuthorized and
\* every other value to Unknown; with fewer than 2 body bytes after the
\* fixed header the result is MalformedPacket.
ReturnCodeName(rc) ==
    IF rc \in 0..5
    THEN <<"Success", "RefusedProtocolVersion", "BadClientId",
           "ServiceUnavailable", "BadUserNamePassword",
           "NotAuthorized">>[rc + 1]
    ELSE "Unknown"

C16_ConnackDecoding ==
    op = "connack_from_stream" =>
        IF Len(wire) < 4
        THEN ret.st = "MalformedPacket"
        ELSE /\ ret.st = "ok"
             /\ ret.val.session_present = (wire[3] # 0)
             /\ ret.val.return_code = ReturnCodeName(wire[4])
             /\ rpos = 4

C16_Witness ==
    /\ op = "connack_from_stream"
    /\ wire = <<32, 2, 2, 5>>
    /\ ret.st = "ok"
    /\ ret.val.session_present
    /\ ret.val.return_code = "NotAuthorized"

\* C17: fixed header round trip: for a recognized packet type, any flags
\* with qos in 0..=2 and any remaining length FixedHeader::write emits the
\* control byte (wire type nibble << 4) | (dup << 3 | qos << 1 | retain)
\* and the remaining-length encoding, and FixedHeader::from_bytes of that
\* output returns an equal FixedHeader.
C17_FixedHeaderRoundTrip ==
    /\ op = "header_write" =>
          /\ ret.st = "ok"
          /\ wire = <<req.byte>> \o VarInt(len)
    /\ op = "header_read" =>
          /\ ret.st = "ok"
          /\ ret.val = FixedHeader_new(req.byte, len)
          /\ rpos = Len(wire)

\* C18: no encode failure is swallowed: when the sink returns an error on
\* a write made during Request::serialize, the writes of a subscription
\* topic and of its QoS byte included, serialize returns an error and not
\* Ok.
BytesToWrite(r) == Len(Request_serialize(Sink(<<>>, Vec), r).bytes)

SinkFailed == op = "serialize_into" /\ BytesToWrite(req) > len

C18_NoSwallowedError == SinkFailed => ret.st # "ok"

\* C19: string reads respect the packet boundary: when the declared length
\* of the topic exceeds the bytes left inside the packet's remaining
\* length, the PUBLISH decoder fails with BoundaryCrossed and consumes no
\* byte of the next packet in the stream.
TopicCrossesBoundary ==
    /\ op = "from_bytes"
    /\ ret.hdr.remaining_length >= 2
    /\ U16Value(SubSeq(wire, 1, 2)) > ret.hdr.remaining_length - 2

C19_StringBoundary ==
    TopicCrossesBoundary =>
        /\ ret.st = "BoundaryCrossed"
        /\ rpos <= ret.hdr.remaining_length

\* C20: after the client id ConnectPayload::write emits will topic, will
\* message, username and password in that order, each once and only when
\* it is present, username and password from their own values; a payload
\* with a will message and no username or password emits the will message
\* once and nothing after it.
OptStr(field) == IF field = None THEN <<>> ELSE Str(field[1])

C20_ConnectPayloadFields ==
    op = "payload_write" =>
        wire = OptStr(req.payload.client_id) \o OptStr(req.payload.will_topic)
               \o OptStr(req.payload.will_message)
               \o OptStr(req.payload.username)
               \o OptStr(req.payload.password)

\* C21: SubscribePacket::write emits the 16-bit big-endian packet id and
\* then, for the subscriptions in their given order, the length-prefixed
\* topic immediately followed by its one-byte QoS (0, 1 or 2): the i-th
\* pair on the wire is the i-th subscription, and there is no count prefix.
QosByte(q) ==
    IF q = "AtMostOnce" THEN 0 ELSE IF q = "AtLeastOnce" THEN 1 ELSE 2

RECURSIVE SubscriptionPairs(_)
SubscriptionPairs(ts) ==
    IF ts = <<>> THEN <<>>
    ELSE Str(Head(ts).topic) \o <<QosByte(Head(ts).qos)>>
         \o SubscriptionPairs(Tail(ts))

C21_SubscribeBodyOrder ==
    Serialized("Subscribe") =>
        Body = U16Bytes(req.packet_id)
               \o SubscriptionPairs(req.subscription_topics)

C21_Witness ==
    /\ Serialized("Subscribe")
    /\ req.packet_id = 518
    /\ req.subscription_topics =
          <<[qos |-> "ExactlyOnce", topic |-> TopicA],
            [qos |-> "AtLeastOnce", topic |-> TestTopic]>>
    /\ Body = <<2, 6, 0, 1, 97, 2>> \o Str(TestTopic) \o <<1>>

\* The requests publish(topic, payload) may stand for
PublishRequests(topic, payload) ==
    [kind : {"Publish"}, packet_id : PacketIds \cup {0, 1}, qos : 0..2,
     topic : {topic}, payload : {payload}]

SessionOps == {"send_message", "publish", "ack", "disconnect"}

\* C22: send_message serializes and then flushes (after it succeeds every
\* byte of the channel is flushed), and returns the error of a failed
\* serialize without flushing; publish, ack and disconnect leave the session
\* exactly as send_message of the Publish request with that topic and
\* payload, of the request of the same kind with that packet id, and of
\* Disconnect would: on a channel that takes them, the bytes 0x32, length,
\* topic, packet id, payload; the opcode, 2 and the packet id; 0xe0 and 0.
C22_SessionOperations ==
    [][(op' \in SessionOps /\ pkts' # pkts) =>
        /\ flushed' = (IF ret'.st = "ok" THEN Len(wire') ELSE flushed)
        /\ op' = "publish" =>
              /\ \E r \in PublishRequests(req'.topic, req'.payload) :
                    /\ wire' = Protocol_send_message(ThisProtocol, r).stream.bytes
                    /\ ret'.st = Protocol_send_message(ThisProtocol, r).stream.st
              /\ ret'.st = "ok" =>
                    wire' = wire \o <<50>>
                            \o VarInt(4 + Len(req'.topic) + Len(req'.payload))
                            \o Str(req'.topic) \o <<0, 1>> \o req'.payload
        /\ op' = "ack" =>
              /\ wire' = Protocol_send_message(ThisProtocol,
                              [kind |-> req'.kind,
                               packet_id |-> req'.packet_id]).stream.bytes
              /\ ret'.st = "ok" =>
                    wire' = wire \o <<Opcode(req'), 2>> \o U16Bytes(req'.packet_id)
        /\ op' = "disconnect" =>
              /\ wire' = Protocol_send_message(ThisProtocol,
                              [kind |-> "Disconnect"]).stream.bytes
              /\ ret'.st = "ok" => wire' = wire \o <<224, 0>>]_vars

\* An acknowledgement went out and was flushed; the publish after it failed
\* part way, and the flush still covers the acknowledgement only.
C22_Witness ==
    /\ op = "publish"
    /\ ret.st = "WriteZero"
    /\ req.topic = TopicA
    /\ start = 4
    /\ SubSeq(wire, 1, 4) = <<98, 2, 2, 6>>
    /\ flushed = 4
    /\ Len(wire) > 4

\* write_remaining_length of an encodable length ends within 4 iterations
WriteLoopBounded ==
    (op = "write_remaining_length" /\ len <= MAX_PAYLOAD_SIZE /\ ret.st = "ok")
        => ret.count \in 1..4

\* C23: the length loops terminate: write_remaining_length ends within 4
\* iterations for every length up to 268435455, and read_remaining_length
\* ends on every finite source with a value or an error (it does not
\* abort), having read at most 4 bytes when it returns a value.
C23_LengthLoopsTerminate ==
    /\ WriteLoopBounded
    /\ op = "read_length" =>
          /\ ret.st # "panic"
          /\ ret.st = "ok" => rpos <= 4

\* PublishPacket::from_bytes has read a topic (and, at qos > 0, a packet
\* id) of more bytes than the remaining length of the fixed header.
HeaderShorterThanRead ==
    /\ op = "from_bytes"
    /\ Len(wire) >= 2
    /\ LET need == 2 + U16Value(SubSeq(wire, 1, 2))
                     + (IF ret.hdr.flags.qos > 0 THEN 2 ELSE 0)
       IN  /\ Len(wire) >= need
           /\ ret.hdr.remaining_length < need

\* C24: the payload length of a PUBLISH never underflows: when the remaining
\* length of the fixed header is below the bytes already read (2 + topic,
\* + 2 at qos > 0), PublishPacket::from_bytes returns an error; it neither
\* aborts on the u32 subtraction nor returns a packet.
C24_PayloadLengthNoUnderflow ==
    HeaderShorterThanRead => ret.st \notin {"ok", "panic"}

\* C25: the 16-bit prefix write_string writes equals the number of bytes
\* that follow it, also for a string of more than 65535 bytes (the prefix
\* is not the length cut to 16 bits), and read_string of what write_string
\* wrote is the string.
C25_StringPrefix ==
    (op = "string_round_trip" /\ ret.st = "ok") =>
        /\ ret.prefix = ret.follow
        /\ ret.back = "ok"
        /\ ret.same

\* Every Response::Publish deserialize returns has a qos of 0, 1 or 2
QosDecodedInRange ==
    (op = "deserialize" /\ ret.st = "ok" /\ ret.val.kind = "Publish") =>
        ret.val.qos \in 0..2

\* Request::serialize of a Publish of another qos returns an error
QosEncodedInRange ==
    (op = "serialize" /\ req.kind = "Publish" /\ req.qos \notin 0..2) =>
        ret.st \notin {"ok", "panic"}

\* C26: the QoS stays in range: every Response::Publish that deserialize
\* returns has a qos of 0, 1 or 2 (the control byte 0x36 does not become a
\* packet of qos 3), and Request::serialize of a Publish whose qos is not
\* 0, 1 or 2 returns an error: it neither aborts nor writes a packet.
C26_QosInRange ==
    /\ QosDecodedInRange
    /\ QosEncodedInRange

====
